---- MODULE Spec2Model ----
(***************************************************************************)
(* The map screen HomePage of src/app/(tabs)/index.tsx (lines 1-418, the   *)
(* revision with two location providers and start/stop tracking).          *)
(*                                                                         *)
(* Angles are integers in units of 1/160000 degree, so that every halving  *)
(* the zoom can reach from the values below is exact:                      *)
(*   0.01 = 1600, 1.5 = 240000, 0.0922 = 14752, 0.0421 = 6736,             *)
(*   50.4501 = 8072016, 30.5234 = 4883744.                                 *)
(*                                                                         *)
(* One step of the model is one JavaScript task: an event handler, a       *)
(* backend callback or the continuation of an await, together with the     *)
(* render and the effects that follow it.  The state cells written by the  *)
(* useState setters are the session state; a setter call writes its cell.  *)
(***************************************************************************)
EXTENDS Integers, FiniteSets, Bags, TLC

VARIABLES
    location,     \* useState location: the last fix, or NoValue
    errorMsg,     \* useState errorMsg: a message, or Null
    region,       \* useState region
    provider,     \* useState provider
    isTracking,   \* useState isTracking
    watchIdRef,   \* watchIdRef.current: Null, "function" (expo subscription.remove) or "number" (Geolocation watch id)
    live,         \* live backend subscriptions, counted per provider
    pending,      \* bag of suspended calls and timers
    mounted,      \* the component is mounted
    animatedTo,   \* region of the last animateToRegion command, or NoValue
    switchedFrom  \* history: the provider left by the last toggle made while tracking, or Null

vars == <<location, errorMsg, region, provider, isTracking, watchIdRef, live,
          pending, mounted, animatedTo, switchedFrom>>

----------------------------------------------------------------------------
(* Bounds of the model *)

MaxPending == 2
MaxSubs == 2

(* Inputs: the coordinates a backend may report, the regions the user may   *)
(* pan/zoom the map to.                                                     *)
Coords == { [latitude |-> 8072000, longitude |-> 4883200],
            [latitude |-> 160000, longitude |-> 160000] }

UserRegions == { [latitude |-> 0, longitude |-> 320000,
                  latitudeDelta |-> 320000, longitudeDelta |-> 160000] }

----------------------------------------------------------------------------
(* Values *)

Null == "null"
NoValue == [null |-> TRUE]

EXPO == "expo"
RNC == "react-native-community"
Providers == {EXPO, RNC}

DEFAULT_REGION == [latitude |-> 8072016, longitude |-> 4883744,
                   latitudeDelta |-> 14752, longitudeDelta |-> 6736]
MIN_ZOOM_DELTA == 1600
MAX_ZOOM_DELTA == 240000
FIX_DELTA == 1600

MSG_PERMISSION == "Permission to access location was denied"
MSG_GET == "Error getting location"
MSG_TRACK == "Error tracking location"
MSG_START == "Error starting location tracking"

INITIAL_PROVIDER == RNC

----------------------------------------------------------------------------
(* Pure helpers *)

\* Recenter with the zoom of the default region instead of the fix zoom
RecenterAtDefaultZoom(c) ==
    [latitude |-> c.latitude, longitude |-> c.longitude,
     latitudeDelta |-> DEFAULT_REGION.latitudeDelta,
     longitudeDelta |-> DEFAULT_REGION.longitudeDelta]

\* newRegion of updateRegion / getLocation / getExpoLocation
Recenter(c) == [latitude |-> c.latitude, longitude |-> c.longitude,
                latitudeDelta |-> FIX_DELTA, longitudeDelta |-> FIX_DELTA]

\* a zoomIn without the test against MIN_ZOOM_DELTA
zoomInUnguarded(r) ==
    [r EXCEPT !.latitudeDelta = r.latitudeDelta \div 2,
              !.longitudeDelta = r.longitudeDelta \div 2]

\* a zoomOut without the test against MAX_ZOOM_DELTA
zoomOutUnguarded(r) ==
    [r EXCEPT !.latitudeDelta = r.latitudeDelta * 2,
              !.longitudeDelta = r.longitudeDelta * 2]

zoomIn(r) ==
    IF r.latitudeDelta > MIN_ZOOM_DELTA
    THEN [r EXCEPT !.latitudeDelta = r.latitudeDelta \div 2,
                   !.longitudeDelta = r.longitudeDelta \div 2]
    ELSE r

zoomOut(r) ==
    IF r.latitudeDelta < MAX_ZOOM_DELTA
    THEN [r EXCEPT !.latitudeDelta = r.latitudeDelta * 2,
                   !.longitudeDelta = r.longitudeDelta * 2]
    ELSE r

\* toggleProvider's updater
OtherProvider(p) == IF p = EXPO THEN RNC ELSE EXPO

\* the kind of value startTracking stores in watchIdRef.current for provider p
HandleOf(p) == IF p = EXPO THEN "function" ELSE "number"

\* The render shows the map and every control only while errorMsg is falsy.
ControlsRendered == mounted /\ errorMsg = Null

\* mapRef.current: the MapView, attached only while it is rendered
MapAttached == ControlsRendered

TotalLive == live[EXPO] + live[RNC]

Task(op, p, pc, c) == [op |-> op, prov |-> p, pc |-> pc, coord |-> c]
Add(bag, t) == bag (+) SetToBag({t})
Remove(bag, t) == bag (-) SetToBag({t})
PendingTasks == BagToSet(pending)
PendingStarts ==
    CopiesIn(Task("startTracking", EXPO, "permission", NoValue), pending)
    + CopiesIn(Task("startTracking", EXPO, "watch", NoValue), pending)

\* the task getLocation suspends on, for the provider its closure sees
GetLocationTask(p) ==
    IF p = EXPO THEN Task("getLocation", EXPO, "permission", NoValue)
    ELSE Task("getLocation", RNC, "position", NoValue)

\* stopTracking without its final setIsTracking(false)
stopTrackingKeepsFlag(p) ==
    IF watchIdRef = Null
    THEN [threw |-> FALSE, live |-> live, ref |-> Null, tracking |-> isTracking]
    ELSE IF p = EXPO
    THEN IF watchIdRef = "function"
         THEN [threw |-> FALSE, live |-> [live EXCEPT ![EXPO] = @ - 1],
               ref |-> Null, tracking |-> isTracking]
         ELSE [threw |-> TRUE, live |-> live, ref |-> watchIdRef,
               tracking |-> isTracking]
    ELSE IF watchIdRef = "number"
         THEN [threw |-> FALSE, live |-> [live EXCEPT ![RNC] = @ - 1],
               ref |-> Null, tracking |-> isTracking]
         ELSE [threw |-> FALSE, live |-> live, ref |-> Null, tracking |-> isTracking]

\* a stopTracking without the test of watchIdRef.current against null
stopTrackingNoNullTest(p) ==
    IF p = EXPO
    THEN IF watchIdRef = "function"
         THEN [threw |-> FALSE, live |-> [live EXCEPT ![EXPO] = @ - 1],
               ref |-> Null, tracking |-> FALSE]
         ELSE [threw |-> TRUE, live |-> live, ref |-> watchIdRef,
               tracking |-> isTracking]
    ELSE IF watchIdRef = "number"
         THEN [threw |-> FALSE, live |-> [live EXCEPT ![RNC] = @ - 1],
               ref |-> Null, tracking |-> FALSE]
         ELSE [threw |-> FALSE, live |-> live, ref |-> Null, tracking |-> FALSE]

(* stopTracking, run with the provider value p of its closure.              *)
(* threw: calling a number as a function raises a TypeError before the ref  *)
(* is cleared.  Geolocation.clearWatch given a value that is not one of its *)
(* watch ids releases nothing.                                              *)
stopTracking(p) ==
    IF watchIdRef = Null
    THEN [threw |-> FALSE, live |-> live, ref |-> Null, tracking |-> FALSE]
    ELSE IF p = EXPO
    THEN IF watchIdRef = "function"
         THEN [threw |-> FALSE, live |-> [live EXCEPT ![EXPO] = @ - 1],
               ref |-> Null, tracking |-> FALSE]
         ELSE [threw |-> TRUE, live |-> live, ref |-> watchIdRef,
               tracking |-> isTracking]
    ELSE IF watchIdRef = "number"
         THEN [threw |-> FALSE, live |-> [live EXCEPT ![RNC] = @ - 1],
               ref |-> Null, tracking |-> FALSE]
         ELSE [threw |-> FALSE, live |-> live, ref |-> Null, tracking |-> FALSE]

----------------------------------------------------------------------------
(* Initial state: the first render and its effects.  The [provider] effect  *)
(* has called getLocation() with the initial provider.                      *)

Init ==
    /\ location = NoValue
    /\ errorMsg = Null
    /\ region = DEFAULT_REGION
    /\ provider = INITIAL_PROVIDER
    /\ isTracking = FALSE
    /\ watchIdRef = Null
    /\ live = [p \in Providers |-> 0]
    /\ pending = SetToBag({GetLocationTask(INITIAL_PROVIDER)})
    /\ mounted = TRUE
    /\ animatedTo = NoValue
    /\ switchedFrom = Null

----------------------------------------------------------------------------
(* Guards that only keep the model finite *)

CanSpawn == BagCardinality(pending) < MaxPending
CanSubscribe(l) == l[EXPO] + l[RNC] + PendingStarts < MaxSubs

----------------------------------------------------------------------------
(* User actions.  Every control is part of the branch of the render that   *)
(* is shown while errorMsg is falsy.                                        *)

\* the location button: onPress={getLocation}
PressGetLocation ==
    /\ ControlsRendered
    /\ CanSpawn
    /\ pending' = Add(pending, GetLocationTask(provider))
    /\ UNCHANGED <<location, errorMsg, region, provider, isTracking, watchIdRef,
                   live, mounted, animatedTo, switchedFrom>>

\* a disabled prop of the plus button that is false at the limit itself
zoomInDisabledBelowLimit == region.latitudeDelta < MIN_ZOOM_DELTA

\* the disabled props of the plus and the minus button
zoomInDisabled == region.latitudeDelta <= MIN_ZOOM_DELTA
zoomOutDisabled == region.latitudeDelta >= MAX_ZOOM_DELTA

\* the plus button: onPress={zoomIn}, disabled at or below MIN_ZOOM_DELTA
PressZoomIn ==
    /\ ControlsRendered
    /\ ~zoomInDisabled
    /\ region' = zoomIn(region)
    /\ animatedTo' = IF region.latitudeDelta > MIN_ZOOM_DELTA /\ MapAttached
                     THEN zoomIn(region) ELSE animatedTo
    /\ UNCHANGED <<location, errorMsg, provider, isTracking, watchIdRef, live,
                   pending, mounted, switchedFrom>>

\* the minus button: onPress={zoomOut}, disabled at or above MAX_ZOOM_DELTA
PressZoomOut ==
    /\ ControlsRendered
    /\ ~zoomOutDisabled
    /\ region' = zoomOut(region)
    /\ animatedTo' = IF region.latitudeDelta < MAX_ZOOM_DELTA /\ MapAttached
                     THEN zoomOut(region) ELSE animatedTo
    /\ UNCHANGED <<location, errorMsg, provider, isTracking, watchIdRef, live,
                   pending, mounted, switchedFrom>>

\* an onRegionChangeComplete that takes the centre of r and keeps the deltas
RegionChangeCompleteKeepsZoom(r) ==
    /\ ControlsRendered
    /\ region' = [r EXCEPT !.latitudeDelta = region.latitudeDelta,
                           !.longitudeDelta = region.longitudeDelta]
    /\ UNCHANGED <<location, errorMsg, provider, isTracking, watchIdRef, live,
                   pending, mounted, animatedTo, switchedFrom>>

\* MapView onRegionChangeComplete={setRegion}, for a pan or pinch by the user
RegionChangeComplete(r) ==
    /\ ControlsRendered
    /\ region' = r
    /\ UNCHANGED <<location, errorMsg, provider, isTracking, watchIdRef, live,
                   pending, mounted, animatedTo, switchedFrom>>

\* the tracking button while isTracking is false: startTracking()
PressStart ==
    /\ ControlsRendered
    /\ ~isTracking
    /\ CanSubscribe(live)
    /\ IF provider = EXPO
       THEN /\ CanSpawn
            /\ pending' = Add(pending, Task("startTracking", EXPO, "permission", NoValue))
            /\ UNCHANGED <<isTracking, watchIdRef, live>>
       ELSE /\ live' = [live EXCEPT ![RNC] = @ + 1]
            /\ watchIdRef' = HandleOf(RNC)
            /\ isTracking' = TRUE
            /\ UNCHANGED pending
    /\ UNCHANGED <<location, errorMsg, region, provider, mounted, animatedTo,
                   switchedFrom>>

\* the tracking button while isTracking is true: stopTracking()
PressStop ==
    /\ ControlsRendered
    /\ isTracking
    /\ LET s == stopTracking(provider) IN
         /\ live' = s.live
         /\ watchIdRef' = s.ref
         /\ isTracking' = s.tracking
    /\ UNCHANGED <<location, errorMsg, region, provider, pending, mounted,
                   animatedTo, switchedFrom>>

(* The provider label: toggleProvider, the render with the new provider and *)
(* the [provider] effect of that render, whose closures see the new         *)
(* provider.  An exception thrown by the effect makes React unmount the     *)
(* tree, which runs the cleanup of the mount effect.                        *)
ToggleProvider ==
    LET newP == OtherProvider(provider)
        s == stopTracking(newP)
        u == stopTracking(INITIAL_PROVIDER)
    IN
    /\ ControlsRendered
    /\ provider' = newP
    /\ switchedFrom' = IF isTracking THEN provider ELSE Null
    /\ IF ~isTracking
       THEN /\ CanSpawn
            /\ pending' = Add(pending, GetLocationTask(newP))
            /\ UNCHANGED <<isTracking, watchIdRef, live, mounted>>
       ELSE IF s.threw
       THEN /\ mounted' = FALSE
            /\ live' = u.live
            /\ watchIdRef' = u.ref
            /\ isTracking' = u.tracking
            /\ UNCHANGED pending
       ELSE IF newP = EXPO
       THEN /\ CanSubscribe(s.live)
            /\ CanSpawn
            /\ pending' = Add(pending, Task("startTracking", EXPO, "permission", NoValue))
            /\ live' = s.live
            /\ watchIdRef' = s.ref
            /\ isTracking' = s.tracking
            /\ UNCHANGED mounted
       ELSE /\ CanSubscribe(s.live)
            /\ live' = [s.live EXCEPT ![RNC] = @ + 1]
            /\ watchIdRef' = HandleOf(RNC)
            /\ isTracking' = TRUE
            /\ UNCHANGED <<pending, mounted>>
    /\ UNCHANGED <<location, errorMsg, region, animatedTo>>

----------------------------------------------------------------------------
(* Continuations of suspended calls *)

\* Location.requestForegroundPermissionsAsync() resolves with a status
PermissionResolved(t, status) ==
    /\ t \in PendingTasks
    /\ t.pc = "permission"
    /\ IF status = "granted"
       THEN /\ pending' = Add(Remove(pending, t),
                  [t EXCEPT !.pc = IF t.op = "getLocation" THEN "position" ELSE "watch"])
            /\ UNCHANGED errorMsg
       ELSE /\ pending' = Remove(pending, t)
            /\ errorMsg' = MSG_PERMISSION
    /\ UNCHANGED <<location, region, provider, isTracking, watchIdRef, live,
                   mounted, animatedTo, switchedFrom>>

\* Location.requestForegroundPermissionsAsync() rejects: the catch block
PermissionRejected(t) ==
    /\ t \in PendingTasks
    /\ t.pc = "permission"
    /\ pending' = Remove(pending, t)
    /\ errorMsg' = IF t.op = "getLocation" THEN MSG_GET ELSE MSG_START
    /\ UNCHANGED <<location, region, provider, isTracking, watchIdRef, live,
                   mounted, animatedTo, switchedFrom>>

\* a one-shot fix that also ends the tracking session
PositionResolvedStopsTracking(t, c) ==
    /\ t \in PendingTasks
    /\ t.op = "getLocation" /\ t.pc = "position"
    /\ location' = c
    /\ region' = Recenter(c)
    /\ pending' = Add(Remove(pending, t), Task("timer", t.prov, "timeout", c))
    /\ watchIdRef' = Null
    /\ isTracking' = FALSE
    /\ UNCHANGED <<errorMsg, provider, live, mounted, animatedTo, switchedFrom>>

\* getCurrentPositionAsync / getCurrentPosition delivers the fix c
PositionResolved(t, c) ==
    /\ t \in PendingTasks
    /\ t.op = "getLocation" /\ t.pc = "position"
    /\ location' = c
    /\ region' = Recenter(c)
    /\ pending' = Add(Remove(pending, t), Task("timer", t.prov, "timeout", c))
    /\ UNCHANGED <<errorMsg, provider, isTracking, watchIdRef, live, mounted,
                   animatedTo, switchedFrom>>

\* PositionRejected with a catch block that also drops the last fix
PositionRejectedClearsFix(t, cause) ==
    /\ t \in PendingTasks
    /\ t.op = "getLocation" /\ t.pc = "position"
    /\ cause = "denied" => t.prov = RNC
    /\ pending' = Remove(pending, t)
    /\ errorMsg' = MSG_GET
    /\ location' = NoValue
    /\ UNCHANGED <<region, provider, isTracking, watchIdRef, live,
                   mounted, animatedTo, switchedFrom>>

(* The one-shot request fails.  cause is "denied" (the react-native backend *)
(* reports a declined permission through its error callback) or             *)
(* "unavailable" (a backend error or the timeout).                          *)
PositionRejected(t, cause) ==
    /\ t \in PendingTasks
    /\ t.op = "getLocation" /\ t.pc = "position"
    /\ cause = "denied" => t.prov = RNC
    /\ pending' = Remove(pending, t)
    /\ errorMsg' = MSG_GET
    /\ UNCHANGED <<location, region, provider, isTracking, watchIdRef, live,
                   mounted, animatedTo, switchedFrom>>

\* the setTimeout callback of getLocation / getExpoLocation
TimerFired(t) ==
    /\ t \in PendingTasks
    /\ t.op = "timer"
    /\ pending' = Remove(pending, t)
    /\ animatedTo' = IF MapAttached THEN Recenter(t.coord) ELSE animatedTo
    /\ UNCHANGED <<location, errorMsg, region, provider, isTracking, watchIdRef,
                   live, mounted, switchedFrom>>

\* Location.watchPositionAsync resolves with the subscription
WatchResolved(t) ==
    /\ t \in PendingTasks
    /\ t.op = "startTracking" /\ t.pc = "watch"
    /\ pending' = Remove(pending, t)
    /\ live' = [live EXCEPT ![EXPO] = @ + 1]
    /\ watchIdRef' = HandleOf(EXPO)
    /\ isTracking' = TRUE
    /\ UNCHANGED <<location, errorMsg, region, provider, mounted, animatedTo,
                   switchedFrom>>

\* Location.watchPositionAsync rejects: the catch block of startTracking
WatchRejected(t) ==
    /\ t \in PendingTasks
    /\ t.op = "startTracking" /\ t.pc = "watch"
    /\ pending' = Remove(pending, t)
    /\ errorMsg' = MSG_START
    /\ UNCHANGED <<location, region, provider, isTracking, watchIdRef, live,
                   mounted, animatedTo, switchedFrom>>

----------------------------------------------------------------------------
(* Backend callbacks of live subscriptions *)

\* a watch callback that records every fix but recenters on the first only
WatchFixKeepsFirstRegion(p, c) ==
    /\ live[p] > 0
    /\ location' = c
    /\ region' = IF location = NoValue THEN Recenter(c) ELSE region
    /\ animatedTo' = IF MapAttached /\ location = NoValue THEN Recenter(c) ELSE animatedTo
    /\ UNCHANGED <<errorMsg, provider, isTracking, watchIdRef, live, pending,
                   mounted, switchedFrom>>

\* a live subscription of provider p delivers the fix c: setLocation, updateRegion
WatchFix(p, c) ==
    /\ live[p] > 0
    /\ location' = c
    /\ region' = Recenter(c)
    /\ animatedTo' = IF MapAttached THEN Recenter(c) ELSE animatedTo
    /\ UNCHANGED <<errorMsg, provider, isTracking, watchIdRef, live, pending,
                   mounted, switchedFrom>>

\* an error callback that ends the watch
WatchErrorEndsWatch ==
    /\ live[RNC] > 0
    /\ errorMsg' = MSG_TRACK
    /\ live' = [live EXCEPT ![RNC] = @ - 1]
    /\ watchIdRef' = Null
    /\ isTracking' = FALSE
    /\ UNCHANGED <<location, region, provider, pending, mounted, animatedTo,
                   switchedFrom>>

\* the error callback of Geolocation.watchPosition
WatchError ==
    /\ live[RNC] > 0
    /\ errorMsg' = MSG_TRACK
    /\ UNCHANGED <<location, region, provider, isTracking, watchIdRef, live,
                   pending, mounted, animatedTo, switchedFrom>>

----------------------------------------------------------------------------
(* Unmount: the cleanup of the mount effect runs stopTracking with the      *)
(* closure of the first render, whose provider is the initial one.          *)
Unmount ==
    /\ mounted
    /\ LET u == stopTracking(INITIAL_PROVIDER) IN
         /\ live' = u.live
         /\ watchIdRef' = u.ref
         /\ isTracking' = u.tracking
    /\ mounted' = FALSE
    /\ UNCHANGED <<location, errorMsg, region, provider, pending, animatedTo,
                   switchedFrom>>

----------------------------------------------------------------------------
Next ==
    \/ PressGetLocation
    \/ PressZoomIn
    \/ PressZoomOut
    \/ \E r \in UserRegions : RegionChangeComplete(r)
    \/ PressStart
    \/ PressStop
    \/ ToggleProvider
    \/ \E t \in PendingTasks : \E status \in {"granted", "denied"} :
           PermissionResolved(t, status)
    \/ \E t \in PendingTasks : PermissionRejected(t)
    \/ \E t \in PendingTasks : \E c \in Coords : PositionResolved(t, c)
    \/ \E t \in PendingTasks : \E cause \in {"denied", "unavailable"} :
           PositionRejected(t, cause)
    \/ \E t \in PendingTasks : TimerFired(t)
    \/ \E t \in PendingTasks : WatchResolved(t)
    \/ \E t \in PendingTasks : WatchRejected(t)
    \/ \E p \in Providers : \E c \in Coords : WatchFix(p, c)
    \/ WatchError
    \/ Unmount

Spec == Init /\ [][Next]_vars

----------------------------------------------------------------------------
(* The session states of the specification, read off the state cells.       *)
(* errorMsg is never reset, so the session is Errored from the first        *)
(* failure on.                                                              *)
SessionState ==
    IF errorMsg # Null THEN "Errored"
    ELSE IF isTracking THEN "Tracking"
    ELSE IF location # NoValue THEN "Located"
    ELSE "Idle"

StartTask == Task("startTracking", EXPO, "permission", NoValue)

----------------------------------------------------------------------------
(* C1: a provider toggle made while tracking on the old provider releases   *)
(* the old provider's subscription and then requests the new watch; when    *)
(* the switch has completed exactly one subscription is live and it is the  *)
(* new provider's.  Stated for both directions.                             *)
C1_Original ==
    [][ (isTracking /\ watchIdRef = HandleOf(provider) /\ ToggleProvider)
        => /\ live'[provider] = 0
           /\ \/ /\ watchIdRef' = HandleOf(provider')
                 /\ live'[provider'] = 1
                 /\ TotalLive' = 1
              \/ /\ watchIdRef' = Null
                 /\ TotalLive' = 0
                 /\ CopiesIn(StartTask, pending') > 0 ]_vars

(* C2: after a provider toggle made while tracking, a fix delivered by the  *)
(* provider that was left changes neither location nor region.              *)
C2_Original ==
    [][ (switchedFrom # Null /\ \E c \in Coords : WatchFix(switchedFrom, c))
        => UNCHANGED <<location, region>> ]_vars

(* C3: the unmount cleanup leaves no live backend subscription.             *)
C3_Original ==
    [][ Unmount => TotalLive' = 0 ]_vars

(* C4: once the component is unmounted, no later result changes location,   *)
(* region, errorMsg or isTracking, and none issues an animateToRegion.      *)
C4_Original ==
    [][ ~mounted => UNCHANGED <<location, region, errorMsg, isTracking, animatedTo>> ]_vars

(* C5: in every reachable state the watch handle is non-null exactly when   *)
(* isTracking is true.                                                      *)
C5_HandleIffTracking ==
    (watchIdRef # Null) <=> isTracking

\* a start that was pending at unmount has resolved after it
C5_Witness ==
    ~mounted /\ isTracking /\ watchIdRef = "function" /\ live[EXPO] > 0

(* C6: whenever the watch handle is non-null, the subscription it refers to *)
(* was opened on the provider that is currently active.                     *)
C6_Original ==
    watchIdRef # Null => watchIdRef = HandleOf(provider)

(* C7: with errorMsg set the controls stay available, and a successful      *)
(* one-shot request then brings the session to Located.                     *)
C7_Original ==
    [][ /\ (mounted' /\ errorMsg' # Null) => ControlsRendered'
        /\ (mounted /\ ~isTracking /\ \E t \in PendingTasks : \E c \in Coords :
                PositionResolved(t, c))
           => SessionState' = "Located" ]_vars

(* C8: every failure (permission denied, one-shot error, failure to start   *)
(* tracking, watch error callback) sets errorMsg and leaves location and    *)
(* region as they were.                                                     *)
C8_FailureStep ==
    \/ \E t \in PendingTasks : PermissionResolved(t, "denied")
    \/ \E t \in PendingTasks : PermissionRejected(t)
    \/ \E t \in PendingTasks : \E cause \in {"denied", "unavailable"} :
           PositionRejected(t, cause)
    \/ \E t \in PendingTasks : WatchRejected(t)
    \/ WatchError

C8_FailureKeepsFixAndRegion ==
    [][ C8_FailureStep
        => /\ errorMsg' \in {MSG_PERMISSION, MSG_GET, MSG_TRACK, MSG_START}
           /\ location' = location
           /\ region' = region ]_vars

\* a failure has been reported after a fix, at a zoom other than the fix zoom
C8_Witness ==
    /\ errorMsg = MSG_GET
    /\ location \in Coords
    /\ region.latitude = location.latitude
    /\ region.latitudeDelta # FIX_DELTA

(* C9: a declined permission during getLocation gives, on either provider,  *)
(* an errorMsg of its own, different from the one of a backend error or     *)
(* timeout; the session is Errored and region is unchanged.                 *)
C9_Original ==
    [][ (\E t \in PendingTasks :
            \/ (t.op = "getLocation" /\ PermissionResolved(t, "denied"))
            \/ PositionRejected(t, "denied"))
        => /\ errorMsg' = MSG_PERMISSION
           /\ errorMsg' # MSG_GET
           /\ SessionState' = "Errored"
           /\ region' = region ]_vars

(* C10: a fix c, from a one-shot request on either provider or from a watch *)
(* callback, sets location to c and region to c's coordinates with both     *)
(* deltas 0.01, whatever the region was; a one-shot fix received in Idle    *)
(* leaves the session Located.                                              *)
C10_FixRecenters ==
    [][ \A c \in Coords :
          /\ ((\E t \in PendingTasks : PositionResolved(t, c))
                \/ (\E p \in Providers : WatchFix(p, c)))
             => /\ location' = c
                /\ region' = [latitude |-> c.latitude, longitude |-> c.longitude,
                              latitudeDelta |-> 1600, longitudeDelta |-> 1600]
          /\ (SessionState = "Idle" /\ \E t \in PendingTasks : PositionResolved(t, c))
             => SessionState' = "Located" ]_vars

\* a one-shot fix has been applied and its animation timer is still pending
C10_Witness ==
    /\ SessionState = "Located"
    /\ location \in Coords
    /\ region = Recenter(location)
    /\ \E t \in PendingTasks : t.op = "timer" /\ t.coord = location

(* C11: while tracking, fixes are applied in the order in which the watch   *)
(* delivers them: each delivered fix replaces the one before it, so after   *)
(* the delivery of c location is c and region is centred on c with both     *)
(* deltas 0.01, also when a fix was already held; the fix delivered last is *)
(* the one that stays.                                                      *)
C11_FixesInDeliveryOrder ==
    [][ \A p \in Providers : \A c \in Coords :
          (isTracking /\ WatchFix(p, c))
          => /\ location' = c
             /\ region'.latitude = c.latitude
             /\ region'.longitude = c.longitude
             /\ region'.latitudeDelta = 1600
             /\ region'.longitudeDelta = 1600
             /\ MapAttached => animatedTo' = region' ]_vars

\* a watch fix was delivered while tracking, after an earlier fix whose
\* animation timer is still pending
C11_Witness ==
    /\ isTracking
    /\ watchIdRef = HandleOf(provider)
    /\ live[provider] = 1
    /\ location \in Coords
    /\ region = Recenter(location)
    /\ animatedTo = Recenter(location)
    /\ \E t \in PendingTasks : t.op = "timer" /\ t.coord # location

(* C12: at mount (the first state of every behaviour) location is null,     *)
(* errorMsg is null, isTracking is false, the watch handle is null and the  *)
(* active provider is the permission-gated provider 'expo'.  The second     *)
(* conjunct is true of every step; it makes the formula one about           *)
(* behaviours, so that the first conjunct speaks of their first state only. *)
C12_Original ==
    /\ /\ location = NoValue
       /\ errorMsg = Null
       /\ isTracking = FALSE
       /\ watchIdRef = Null
       /\ provider = EXPO
    /\ [][TRUE]_vars

----------------------------------------------------------------------------
(* The program without pans and pinches of the map by the user: region is   *)
(* then written by zoomIn, zoomOut and the fixes only.                      *)
NextWithoutUserRegion ==
    \/ PressGetLocation
    \/ PressZoomIn
    \/ PressZoomOut
    \/ PressStart
    \/ PressStop
    \/ ToggleProvider
    \/ \E t \in PendingTasks : \E status \in {"granted", "denied"} :
           PermissionResolved(t, status)
    \/ \E t \in PendingTasks : PermissionRejected(t)
    \/ \E t \in PendingTasks : \E c \in Coords : PositionResolved(t, c)
    \/ \E t \in PendingTasks : \E cause \in {"denied", "unavailable"} :
           PositionRejected(t, cause)
    \/ \E t \in PendingTasks : TimerFired(t)
    \/ \E t \in PendingTasks : WatchResolved(t)
    \/ \E t \in PendingTasks : WatchRejected(t)
    \/ \E p \in Providers : \E c \in Coords : WatchFix(p, c)
    \/ WatchError
    \/ Unmount

SpecWithoutUserRegion == Init /\ [][NextWithoutUserRegion]_vars

(* C13: in every state reached from DEFAULT_REGION by zoomIn, zoomOut and   *)
(* fix-driven recentring alone, latitudeDelta and longitudeDelta both lie   *)
(* between MIN_ZOOM_DELTA (0.01) and MAX_ZOOM_DELTA (1.5).                  *)
C13_Original ==
    /\ 1600 <= region.latitudeDelta /\ region.latitudeDelta <= 240000
    /\ 1600 <= region.longitudeDelta /\ region.longitudeDelta <= 240000

----------------------------------------------------------------------------
(* zoomIn and zoomOut as functions of the region: the handlers are called   *)
(* on regions drawn from ZoomRegions, whatever the disabled props of the    *)
(* buttons are.  A pan or pinch can leave any region in the state, so the   *)
(* deltas start below, at, between and above the two limits.  A half is    *)
(* rounded down to the unit of the model (1.5 / 2^8 is not a multiple of    *)
(* it).                                                                     *)
ZoomDeltas ==
    { [latitudeDelta |-> 800, longitudeDelta |-> 400],
      [latitudeDelta |-> 1600, longitudeDelta |-> 1600],
      [latitudeDelta |-> 14752, longitudeDelta |-> 6736],
      [latitudeDelta |-> 204800, longitudeDelta |-> 102400],
      [latitudeDelta |-> 240000, longitudeDelta |-> 61440],
      [latitudeDelta |-> 320000, longitudeDelta |-> 160000] }

ZoomCentres ==
    Coords \cup {[latitude |-> DEFAULT_REGION.latitude,
                  longitude |-> DEFAULT_REGION.longitude]}

ZoomRegions ==
    { [latitude |-> c.latitude, longitude |-> c.longitude,
       latitudeDelta |-> d.latitudeDelta, longitudeDelta |-> d.longitudeDelta] :
      c \in ZoomCentres, d \in ZoomDeltas }

InitZoom ==
    /\ region \in ZoomRegions
    /\ location = NoValue
    /\ errorMsg = Null
    /\ provider = INITIAL_PROVIDER
    /\ isTracking = FALSE
    /\ watchIdRef = Null
    /\ live = [p \in Providers |-> 0]
    /\ pending = SetToBag({GetLocationTask(INITIAL_PROVIDER)})
    /\ mounted = TRUE
    /\ animatedTo = NoValue
    /\ switchedFrom = Null

\* a call of zoomIn
CallZoomIn ==
    /\ region' = zoomIn(region)
    /\ animatedTo' = IF region.latitudeDelta > MIN_ZOOM_DELTA /\ MapAttached
                     THEN zoomIn(region) ELSE animatedTo
    /\ UNCHANGED <<location, errorMsg, provider, isTracking, watchIdRef, live,
                   pending, mounted, switchedFrom>>

\* a call of zoomOut
CallZoomOut ==
    /\ region' = zoomOut(region)
    /\ animatedTo' = IF region.latitudeDelta < MAX_ZOOM_DELTA /\ MapAttached
                     THEN zoomOut(region) ELSE animatedTo
    /\ UNCHANGED <<location, errorMsg, provider, isTracking, watchIdRef, live,
                   pending, mounted, switchedFrom>>

NextZoom == CallZoomIn \/ CallZoomOut

SpecZoom == InitZoom /\ [][NextZoom]_vars

(* C14: a call of zoomIn on a region whose latitudeDelta is above           *)
(* MIN_ZOOM_DELTA halves latitudeDelta and longitudeDelta and keeps the     *)
(* centre, and the halved region is the one animated to; on a region whose  *)
(* latitudeDelta is at or below MIN_ZOOM_DELTA it leaves region unchanged   *)
(* and issues no animateToRegion.                                           *)
C14_ZoomInHalvesOrNoOp ==
    [][ CallZoomIn
        => /\ region.latitudeDelta > 1600
              => /\ region'.latitudeDelta = region.latitudeDelta \div 2
                 /\ region'.longitudeDelta = region.longitudeDelta \div 2
                 /\ region'.latitude = region.latitude
                 /\ region'.longitude = region.longitude
                 /\ animatedTo' = region'
           /\ region.latitudeDelta <= 1600
              => /\ region' = region
                 /\ animatedTo' = animatedTo ]_vars

\* zoomIn has halved down to a region at or below the limit, where a further
\* call changes nothing
C14_Witness ==
    /\ region.latitudeDelta <= MIN_ZOOM_DELTA
    /\ 2 * region.latitudeDelta > MIN_ZOOM_DELTA
    /\ animatedTo = region
    /\ zoomIn(region) = region

(* C15: a call of zoomOut on a region whose latitudeDelta is below          *)
(* MAX_ZOOM_DELTA doubles latitudeDelta and longitudeDelta and keeps the    *)
(* centre, and the doubled region is the one animated to; on a region whose *)
(* latitudeDelta is at or above MAX_ZOOM_DELTA it leaves region unchanged   *)
(* and issues no animateToRegion.                                           *)
C15_ZoomOutDoublesOrNoOp ==
    [][ CallZoomOut
        => /\ region.latitudeDelta < 240000
              => /\ region'.latitudeDelta = 2 * region.latitudeDelta
                 /\ region'.longitudeDelta = 2 * region.longitudeDelta
                 /\ region'.latitude = region.latitude
                 /\ region'.longitude = region.longitude
                 /\ animatedTo' = region'
           /\ region.latitudeDelta >= 240000
              => /\ region' = region
                 /\ animatedTo' = animatedTo ]_vars

\* zoomOut has doubled up to a region at or above the limit, where a further
\* call changes nothing
C15_Witness ==
    /\ region.latitudeDelta >= MAX_ZOOM_DELTA
    /\ region.latitudeDelta < 2 * MAX_ZOOM_DELTA
    /\ animatedTo = region
    /\ zoomOut(region) = region

(* C16: stopTracking called while tracking releases the subscription the    *)
(* handle refers to, sets the handle to null and isTracking to false and    *)
(* keeps location and region; no subscription is left live that could      *)
(* deliver a fix and change location afterwards.                            *)
C16_Original ==
    [][ (isTracking /\ watchIdRef # Null /\ PressStop)
        => /\ \E p \in Providers :
                 watchIdRef = HandleOf(p) /\ live'[p] = live[p] - 1
           /\ watchIdRef' = Null
           /\ isTracking' = FALSE
           /\ location' = location
           /\ region' = region
           /\ \A p \in Providers : live'[p] = 0 ]_vars

(* C17: stopping is idempotent.  After a call of stopTracking that has      *)
(* returned (the stop button, the unmount cleanup) the handle is null and   *)
(* isTracking is false, and one more call, from the closure of either       *)
(* provider, would release nothing, raise nothing and leave handle,         *)
(* isTracking and the subscriptions as they are; a call made when the       *)
(* handle is already null releases nothing and changes neither location,    *)
(* region nor errorMsg.                                                     *)
C17_StopIsIdempotent ==
    [][ (PressStop \/ Unmount)
        => /\ watchIdRef' = Null
           /\ isTracking' = FALSE
           /\ UNCHANGED <<location, region, errorMsg>>
           /\ \A p \in Providers :
                 (stopTracking(p))' = [threw |-> FALSE, live |-> live',
                                       ref |-> Null, tracking |-> FALSE]
           /\ watchIdRef = Null => live' = live ]_vars

\* the unmount cleanup has called stopTracking after the stop button did
C17_Witness ==
    /\ ~mounted
    /\ watchIdRef = Null
    /\ ~isTracking
    /\ live[INITIAL_PROVIDER] = 0
    /\ location \in Coords
    /\ errorMsg = Null

(* C18: when startTracking succeeds isTracking is true and exactly one      *)
(* subscription is live, on the active provider, with the handle referring  *)
(* to it; later fixes leave isTracking as it is.  When it fails (permission *)
(* denied, or an exception while starting) errorMsg is set, isTracking is   *)
(* false and no subscription is live.                                       *)
C18_StartSucceeded ==
    \/ (provider = RNC /\ PressStart)
    \/ \E t \in PendingTasks : WatchResolved(t)

C18_StartFailed ==
    \E t \in PendingTasks :
        /\ t.op = "startTracking"
        /\ \/ PermissionResolved(t, "denied")
           \/ PermissionRejected(t)
           \/ WatchRejected(t)

C18_Original ==
    [][ /\ C18_StartSucceeded
           => /\ isTracking'
              /\ watchIdRef' = HandleOf(provider')
              /\ live'[provider'] = 1
              /\ TotalLive' = 1
        /\ (isTracking /\ \E p \in Providers : \E c \in Coords : WatchFix(p, c))
           => isTracking'
        /\ C18_StartFailed
           => /\ errorMsg' # Null
              /\ ~isTracking'
              /\ TotalLive' = 0 ]_vars

(* C19: an error reported on a live watch sets errorMsg and leaves the      *)
(* watch handle, isTracking, location and the subscription as they were;    *)
(* the subscription stays live, and a fix it delivers after the error is    *)
(* applied to location and region like any other.                           *)
C19_WatchErrorIsTransient ==
    [][ /\ WatchError
           => /\ errorMsg' = "Error tracking location"
              /\ UNCHANGED <<watchIdRef, isTracking, location, region, live>>
              /\ live'[RNC] > 0
        /\ \A c \in Coords :
              (errorMsg = "Error tracking location" /\ WatchFix(RNC, c))
              => /\ location' = c
                 /\ region' = Recenter(c)
                 /\ UNCHANGED <<watchIdRef, isTracking, live, errorMsg>> ]_vars

\* a watch has reported an error after a fix and is still live and tracking
C19_Witness ==
    /\ errorMsg = MSG_TRACK
    /\ isTracking
    /\ watchIdRef = HandleOf(RNC)
    /\ live[RNC] = 1
    /\ location \in Coords
    /\ region = Recenter(location)

(* C20: a getLocation call made while tracking, whether it ends in a fix or *)
(* in a failure, leaves isTracking true and the watch handle and the live   *)
(* subscriptions as they were: a fix changes location and region only (and  *)
(* arms the animation timer), a failure changes errorMsg only.              *)
C20_GetLocationSucceeded ==
    \E t \in PendingTasks : \E c \in Coords : PositionResolved(t, c)

C20_GetLocationFailed ==
    \E t \in PendingTasks :
        /\ t.op = "getLocation"
        /\ \/ PermissionResolved(t, "denied")
           \/ PermissionRejected(t)
           \/ \E cause \in {"denied", "unavailable"} : PositionRejected(t, cause)

C20_GetLocationInFlight ==
    \/ PressGetLocation
    \/ \E t \in PendingTasks : t.op = "getLocation" /\ PermissionResolved(t, "granted")
    \/ \E t \in PendingTasks : TimerFired(t)

C20_GetLocationKeepsTracking ==
    [][ isTracking
        => /\ (C20_GetLocationSucceeded \/ C20_GetLocationFailed
                  \/ C20_GetLocationInFlight)
              => /\ isTracking'
                 /\ UNCHANGED <<watchIdRef, live, provider>>
           /\ C20_GetLocationSucceeded => UNCHANGED errorMsg
           /\ C20_GetLocationFailed => UNCHANGED <<location, region, animatedTo>>
           /\ C20_GetLocationInFlight => UNCHANGED <<location, region, errorMsg>> ]_vars

\* a one-shot request has failed while a react-native-community watch, which
\* can only be started while errorMsg is null, is live
C20_Witness ==
    /\ isTracking
    /\ watchIdRef = HandleOf(RNC)
    /\ live[RNC] = 1
    /\ errorMsg = MSG_GET
    /\ location \in Coords

(* C21: a region change reported by the map, onRegionChangeComplete with    *)
(* the region r, replaces region by exactly r, whatever region was, and     *)
(* leaves location, errorMsg, isTracking, provider and the watch handle     *)
(* (and the subscriptions) unchanged.                                       *)
C21_UserRegionReplaces ==
    [][ \A r \in UserRegions :
          RegionChangeComplete(r)
          => /\ region'.latitude = r.latitude
             /\ region'.longitude = r.longitude
             /\ region'.latitudeDelta = r.latitudeDelta
             /\ region'.longitudeDelta = r.longitudeDelta
             /\ UNCHANGED <<location, errorMsg, isTracking, provider,
                            watchIdRef, live>> ]_vars

\* the user has moved the map away from a fix while a watch is live
C21_Witness ==
    /\ region \in UserRegions
    /\ location \in Coords
    /\ isTracking
    /\ watchIdRef = HandleOf(provider)
    /\ live[provider] = 1
    /\ errorMsg = Null
    /\ animatedTo = Recenter(location)

(* C22: the last animateToRegion issued for a fix carries the region of the *)
(* fix delivered last: when a watch callback or the delayed callback of     *)
(* getLocation / getExpoLocation issues animateToRegion and no delayed      *)
(* callback is left to follow it, the target is the region centred on the   *)
(* current location, so a delayed callback never overrides the animation of *)
(* a newer fix.                                                             *)
C22_Original ==
    [][ (/\ MapAttached
         /\ \/ \E t \in PendingTasks : TimerFired(t)
            \/ \E p \in Providers : \E c \in Coords : WatchFix(p, c)
         /\ \A t \in BagToSet(pending') : t.op # "timer")
        => /\ location' \in Coords
           /\ animatedTo' = [latitude |-> location'.latitude,
                             longitude |-> location'.longitude,
                             latitudeDelta |-> 1600, longitudeDelta |-> 1600] ]_vars

(* C23: in every state the zoom-in button is disabled exactly when zoomIn   *)
(* would leave region as it is, which is when latitudeDelta is at or below  *)
(* MIN_ZOOM_DELTA, and the zoom-out button is disabled exactly when zoomOut *)
(* would leave region as it is, which is when latitudeDelta is at or above  *)
(* MAX_ZOOM_DELTA.                                                          *)
C23_DisabledIffNoOp ==
    /\ zoomInDisabled <=> (zoomIn(region) = region)
    /\ zoomInDisabled <=> (region.latitudeDelta <= 1600)
    /\ zoomOutDisabled <=> (zoomOut(region) = region)
    /\ zoomOutDisabled <=> (region.latitudeDelta >= 240000)

\* the buttons are shown and a fix has left latitudeDelta at the lower limit
C23_Witness ==
    /\ ControlsRendered
    /\ location \in Coords
    /\ region.latitudeDelta = MIN_ZOOM_DELTA
    /\ zoomInDisabled
    /\ ~zoomOutDisabled

(* C24: in every reachable state the number of live backend subscriptions   *)
(* is 1 if the watch handle is non-null and 0 otherwise, also when the      *)
(* start button is pressed again while an expo startTracking is suspended.  *)
(* Stated for the step the claim names: a suspended startTracking that      *)
(* completes in a state where the count agrees with the handle leaves a     *)
(* state where it still does.                                               *)
C24_LiveAgreesWithHandle ==
    TotalLive = IF watchIdRef # Null THEN 1 ELSE 0

C24_Original ==
    [][ (C24_LiveAgreesWithHandle /\ \E t \in PendingTasks : WatchResolved(t))
        => C24_LiveAgreesWithHandle' ]_vars

====
